---- MODULE Spec2Model ----
(***************************************************************************)
(* Model of app.py, the "Dashboard Contable" of ventas_contador: a sales   *)
(* spreadsheet is read, normalized (procesar_datos), filtered              *)
(* (filtrar_datos), summarised, charted (generar_graficos) and exported    *)
(* to a PDF (generar_pdf), all inside one top-level try/except.            *)
(*                                                                         *)
(* Strings are sequences of character codes, so that strip, lower,         *)
(* capitalize, "in" and the lexicographic order that pandas sorts by are   *)
(* computed and not assumed.  A timestamp is the integer YYYYMMDD.  Money  *)
(* is an integer number of 1/10000 of the currency unit (10000 is 1.00),   *)
(* and the amounts of a table are whole multiples of 100 of them, so that  *)
(* total * 0.19 is represented exactly.  Binary floating point error is    *)
(* not modelled.                                                           *)
(***************************************************************************)
EXTENDS Integers, Sequences, FiniteSets

VARIABLES pc, raw, raw0, df, sel, df_filtrado, total, iva, neto,
          ticket_promedio, figs, resumen_texto, pdf, pantalla, error

vars == <<pc, raw, raw0, df, sel, df_filtrado, total, iva, neto,
          ticket_promedio, figs, resumen_texto, pdf, pantalla, error>>

\* Largest number of rows of a table.
MaxRows == 2

----------------------------------------------------------------------------
(* String literals of the source, as character codes. *)

S_fecha == <<102, 101, 99, 104, 97>>
S_Fecha == <<70, 101, 99, 104, 97>>
S_cliente == <<99, 108, 105, 101, 110, 116, 101>>
S_categoria == <<99, 97, 116, 101, 103, 111, 114, 105, 97>>
S_venta == <<118, 101, 110, 116, 97>>
S_Mes == <<77, 101, 115>>
S_Mes_Nombre == <<77, 101, 115, 95, 78, 111, 109, 98, 114, 101>>
S_Anio == <<65, 241, 111>>
S_Periodo == <<80, 101, 114, 105, 111, 100, 111>>
S_Tipo_Proveedor == <<84, 105, 112, 111, 32, 80, 114, 111, 118, 101, 101, 100, 111, 114>>
S_nuevo == <<110, 117, 101, 118, 111>>
S_Nuevo == <<78, 117, 101, 118, 111>>
S_Frecuente == <<70, 114, 101, 99, 117, 101, 110, 116, 101>>

\* calendar.month_name[1..12] under the locale es_ES.UTF-8.
month_name ==
  << <<101, 110, 101, 114, 111>>,
     <<102, 101, 98, 114, 101, 114, 111>>,
     <<109, 97, 114, 122, 111>>,
     <<97, 98, 114, 105, 108>>,
     <<109, 97, 121, 111>>,
     <<106, 117, 110, 105, 111>>,
     <<106, 117, 108, 105, 111>>,
     <<97, 103, 111, 115, 116, 111>>,
     <<115, 101, 112, 116, 105, 101, 109, 98, 114, 101>>,
     <<111, 99, 116, 117, 98, 114, 101>>,
     <<110, 111, 118, 105, 101, 109, 98, 114, 101>>,
     <<100, 105, 99, 105, 101, 109, 98, 114, 101>> >>

----------------------------------------------------------------------------
(* Python's str methods. *)

Range(s) == {s[i] : i \in 1..Len(s)}

IsSpace(c) == c \in {9, 10, 11, 12, 13, 32}

ToLower(c) == IF c >= 65 /\ c <= 90 THEN c + 32 ELSE c

ToUpper(c) == IF c >= 97 /\ c <= 122 THEN c - 32 ELSE c

lower(s) == [i \in 1..Len(s) |-> ToLower(s[i])]

RECURSIVE lstrip(_)
lstrip(s) == IF s # <<>> /\ IsSpace(Head(s)) THEN lstrip(Tail(s)) ELSE s

RECURSIVE rstrip(_)
rstrip(s) ==
  IF s # <<>> /\ IsSpace(s[Len(s)]) THEN rstrip(SubSeq(s, 1, Len(s) - 1)) ELSE s

strip(s) == rstrip(lstrip(s))

capitalize(s) ==
  [i \in 1..Len(s) |-> IF i = 1 THEN ToUpper(s[i]) ELSE ToLower(s[i])]

\* sub in s
Contains(sub, s) ==
  \E i \in 0..(Len(s) - Len(sub)) : SubSeq(s, i + 1, i + Len(sub)) = sub

\* a < b for two str: by code point, a proper prefix first.
RECURSIVE StrLess(_, _)
StrLess(a, b) ==
  IF b = <<>> THEN FALSE
  ELSE IF a = <<>> THEN TRUE
  ELSE IF Head(a) # Head(b) THEN Head(a) < Head(b)
  ELSE StrLess(Tail(a), Tail(b))

----------------------------------------------------------------------------
(* A DataFrame: its column labels in order, its index labels, and one      *)
(* row (a function from column label to cell) per index label.             *)

EmptyDF == [columns |-> <<>>, index |-> <<>>, data |-> <<>>]

NRows(d) == Len(d.data)

\* d[name]
Col(d, name) == [i \in 1..NRows(d) |-> d.data[i][name]]

\* d[name] = vals: the column is overwritten in place, or appended.
SetCol(d, name, vals) ==
  [columns |-> IF name \in Range(d.columns) THEN d.columns
               ELSE Append(d.columns, name),
   index   |-> d.index,
   data    |-> [i \in 1..NRows(d) |->
                  [c \in (DOMAIN d.data[i]) \cup {name} |->
                     IF c = name THEN vals[i] ELSE d.data[i][c]]]]

\* d[mask]: the rows whose mask is True, in order, with their index labels.
RECURSIVE MaskPositions(_, _)
MaskPositions(mask, i) ==
  IF i > Len(mask) THEN <<>>
  ELSE (IF mask[i] THEN <<i>> ELSE <<>>) \o MaskPositions(mask, i + 1)

BoolIndex(d, mask) ==
  LET keep == MaskPositions(mask, 1)
  IN  [columns |-> d.columns,
       index   |-> [k \in 1..Len(keep) |-> d.index[keep[k]]],
       data    |-> [k \in 1..Len(keep) |-> d.data[keep[k]]]]

----------------------------------------------------------------------------
(* Timestamps.  A cell of a date column is <<kind, YYYYMMDD>>: "ts" a      *)
(* datetime, "str" a text that parses to that date, "bad" a text that      *)
(* does not parse.                                                         *)

dt_year(t) == t[2] \div 10000

dt_month(t) == (t[2] \div 100) % 100

\* .dt.to_period('M'): year and month, ordered chronologically.
to_period_M(t) == t[2] \div 100

\* pd.to_datetime over a column: raises on an unparseable value.
to_datetime(col) ==
  IF \E i \in 1..Len(col) : col[i][1] = "bad"
  THEN [ok |-> FALSE, val |-> <<>>]
  ELSE [ok |-> TRUE, val |-> [i \in 1..Len(col) |-> <<"ts", col[i][2]>>]]

----------------------------------------------------------------------------
(* procesar_datos *)

\* [col for col in df.columns if col.strip().lower() == 'fecha']
ColumnasFecha(d) == SelectSeq(d.columns, LAMBDA col : lower(strip(col)) = S_fecha)

Mes_Nombre(x) == capitalize(month_name[x])

\* The result of a call: it raised (exc), or it returned ret.
Raise(e) == [ok |-> FALSE, exc |-> e, ret |-> EmptyDF]

Return(d) == [ok |-> TRUE, exc |-> "", ret |-> d]

\* procesar_datos(d).  Every assignment is made on d itself, and d is what
\* is returned: ret is the caller's table after the call.
procesar_datos(d) ==
  IF ColumnasFecha(d) = <<>> THEN Raise("IndexError")
  ELSE
    LET col_fecha == ColumnasFecha(d)[1]
        parsed    == to_datetime(Col(d, col_fecha))
    IN  IF ~parsed.ok THEN Raise("ValueError")
        ELSE
          LET d1 == SetCol(d, col_fecha, parsed.val)
              d2 == SetCol(d1, S_Fecha, Col(d1, col_fecha))
              F  == Col(d2, S_Fecha)
              n  == NRows(d)
              d3 == SetCol(d2, S_Mes, [i \in 1..n |-> dt_month(F[i])])
              d4 == SetCol(d3, S_Mes_Nombre,
                           [i \in 1..n |-> Mes_Nombre(dt_month(F[i]))])
              d5 == SetCol(d4, S_Anio, [i \in 1..n |-> dt_year(F[i])])
              d6 == SetCol(d5, S_Periodo, [i \in 1..n |-> to_period_M(F[i])])
          IN  Return(d6)

----------------------------------------------------------------------------
(* filtrar_datos *)

\* EnRango with the end of the range left out (< for <=).
EnRangoSinFin(f, fecha_inicio, fecha_fin) == f[2] >= fecha_inicio /\ f[2] < fecha_fin

\* (df['Fecha'] >= fecha_inicio) & (df['Fecha'] <= fecha_fin), one row
EnRango(f, fecha_inicio, fecha_fin) == f[2] >= fecha_inicio /\ f[2] <= fecha_fin

\* Series.isin
isin(x, values) == x \in values

filtrar_datos(d, clientes_seleccionados, categorias_seleccionadas, fecha_inicio, fecha_fin) ==
  BoolIndex(d,
    [i \in 1..NRows(d) |->
       /\ isin(d.data[i][S_cliente], clientes_seleccionados)
       /\ isin(d.data[i][S_categoria], categorias_seleccionadas)
       /\ EnRango(d.data[i][S_Fecha], fecha_inicio, fecha_fin)])

----------------------------------------------------------------------------
(* groupby, sort_values, pivot_table, value_counts *)

\* The elements of S in ascending order of Less.
\* a < b for two values of column key: numbers for 'Periodo' and 'Año',
\* str for the others.
KeyLess(key, a, b) ==
  IF key \in {S_Periodo, S_Anio} THEN a < b ELSE StrLess(a, b)

\* The values S of column key in ascending order.
RECURSIVE SortKeys(_, _)
SortKeys(S, key) ==
  IF S = {} THEN <<>>
  ELSE LET m == CHOOSE x \in S : \A y \in S \ {x} : KeyLess(key, x, y)
       IN  <<m>> \o SortKeys(S \ {m}, key)

\* SumaVenta that stops one row early.
RECURSIVE SumaVentaSinUltima(_, _, _, _)
SumaVentaSinUltima(d, key, k, i) ==
  IF i >= NRows(d) THEN 0
  ELSE (IF d.data[i][key] = k THEN d.data[i][S_venta] ELSE 0)
       + SumaVentaSinUltima(d, key, k, i + 1)

\* The sum of column 'venta' over the rows i.. whose column key is k.
RECURSIVE SumaVenta(_, _, _, _)
SumaVenta(d, key, k, i) ==
  IF i > NRows(d) THEN 0
  ELSE (IF d.data[i][key] = k THEN d.data[i][S_venta] ELSE 0)
       + SumaVenta(d, key, k, i + 1)

\* The group keys of groupby(key): the distinct values of the column.
GroupKeys(d, key) == Range(Col(d, key))

\* d.groupby(key)['venta'].sum(): one <<key, sum>> per distinct key, in
\* ascending key order.
groupby_sum(d, key) ==
  LET ks == SortKeys(GroupKeys(d, key), key)
  IN  [j \in 1..Len(ks) |-> <<ks[j], SumaVenta(d, key, ks[j], 1)>>]

\* Insert p into s, which is in descending order of value, after every
\* entry whose value is not smaller (ties keep their order).
RECURSIVE InsertDesc(_, _)
InsertDesc(s, p) ==
  IF s = <<>> THEN <<p>>
  ELSE IF Head(s)[2] >= p[2] THEN <<Head(s)>> \o InsertDesc(Tail(s), p)
  ELSE <<p>> \o s

\* Series.sort_values(ascending=False)
RECURSIVE sort_values_desc(_)
sort_values_desc(s) ==
  IF s = <<>> THEN <<>>
  ELSE InsertDesc(sort_values_desc(SubSeq(s, 1, Len(s) - 1)), s[Len(s)])

\* Series.sum()
RECURSIVE SeriesSum(_)
SeriesSum(s) == IF s = <<>> THEN 0 ELSE Head(s)[2] + SeriesSum(Tail(s))

\* The sum of 'venta' over the rows i.. of month name m and year y, and
\* whether there is such a row.
RECURSIVE SumaCelda(_, _, _, _)
SumaCelda(d, m, y, i) ==
  IF i > NRows(d) THEN 0
  ELSE (IF d.data[i][S_Mes_Nombre] = m /\ d.data[i][S_Anio] = y
        THEN d.data[i][S_venta] ELSE 0) + SumaCelda(d, m, y, i + 1)

HayCelda(d, m, y) ==
  \E i \in 1..NRows(d) : d.data[i][S_Mes_Nombre] = m /\ d.data[i][S_Anio] = y

\* The row labels of pivot_table(index='Mes_Nombre'): the month names
\* present, sorted as the str they are.
PivotIndex(d) == SortKeys(GroupKeys(d, S_Mes_Nombre), S_Mes_Nombre)

\* d.pivot_table(index='Mes_Nombre', columns='Año', values='venta',
\* aggfunc='sum'): a cell without rows is NaN.
pivot_table(d) ==
  LET idx  == PivotIndex(d)
      cols == SortKeys(GroupKeys(d, S_Anio), S_Anio)
  IN  [index   |-> idx,
       columns |-> cols,
       values  |-> [i \in 1..Len(idx) |-> [j \in 1..Len(cols) |->
                      [nan |-> ~HayCelda(d, idx[i], cols[j]),
                       v   |-> SumaCelda(d, idx[i], cols[j], 1)]]]]

\* The distinct values of s in order of first appearance.
RECURSIVE Unique(_)
Unique(s) ==
  IF s = <<>> THEN <<>>
  ELSE LET u == Unique(SubSeq(s, 1, Len(s) - 1))
       IN  IF s[Len(s)] \in Range(u) THEN u ELSE Append(u, s[Len(s)])

\* Series.value_counts(): <<value, count>>, the most frequent first.
value_counts(s) ==
  LET u == Unique(s)
  IN  sort_values_desc([j \in 1..Len(u) |->
        <<u[j], Cardinality({i \in 1..Len(s) : s[i] = u[j]})>>])

----------------------------------------------------------------------------
(* The summary metrics *)

\* df_filtrado['venta'].sum()
Total(d) == SeriesSum([i \in 1..NRows(d) |-> <<d.index[i], d.data[i][S_venta]>>])

\* num/den rounded to the nearest integer, a tie to the even one.
RoundHalfEven(num, den) ==
  LET q == num \div den
      r == num % den
  IN  IF 2 * r < den THEN q
      ELSE IF 2 * r > den THEN q + 1
      ELSE IF q % 2 = 0 THEN q ELSE q + 1

\* Iva rounded to two decimals: round(total * 0.19, 2).
IvaRedondeado(t) == 100 * RoundHalfEven(t * 19, 10000)

\* total * 0.19
Iva(t) == (t * 19) \div 100

\* total - iva
Neto(t, i) == t - i

\* Series.mean(): NaN for an empty series, else the sum over the count.
mean(s) ==
  IF s = <<>> THEN [nan |-> TRUE, num |-> 0, den |-> 1]
  ELSE [nan |-> FALSE, num |-> SeriesSum(s), den |-> Len(s)]

\* df_filtrado.groupby('cliente')['venta'].sum().mean()
TicketPromedio(d) == mean(groupby_sum(d, S_cliente))

\* f"{x:,.2f}" of the number x.num / x.den: the text "nan", or a number
\* of cents.
Fmt2(x) ==
  IF x.nan THEN [nan |-> TRUE, centavos |-> 0]
  ELSE [nan |-> FALSE, centavos |-> RoundHalfEven(x.num, x.den * 100)]

Num(n) == [nan |-> FALSE, num |-> n, den |-> 1]

\* resumen_texto: the four formatted values of the paragraph.
ResumenTexto(t, i, n, tp) ==
  [total |-> Fmt2(Num(t)), iva |-> Fmt2(Num(i)), neto |-> Fmt2(Num(n)),
   ticket |-> Fmt2(tp)]

----------------------------------------------------------------------------
(* generar_graficos, generar_pdf *)

\* df['Tipo Proveedor'] = df['categoria'].apply(...)
TipoProveedor(x) == IF Contains(S_nuevo, lower(x)) THEN S_Nuevo ELSE S_Frecuente

ConTipoProveedor(d) ==
  SetCol(d, S_Tipo_Proveedor,
         [i \in 1..NRows(d) |-> TipoProveedor(d.data[i][S_categoria])])

\* The six figures, in the order they are put into figs.
Figuras(d) ==
  << <<"compras_mensuales", groupby_sum(d, S_Periodo)>>,
     <<"ventas_cliente", sort_values_desc(groupby_sum(d, S_cliente))>>,
     <<"ventas_categoria", sort_values_desc(groupby_sum(d, S_categoria))>>,
     <<"totales_anuales", groupby_sum(d, S_Anio)>>,
     <<"comparacion_anual", pivot_table(d)>>,
     <<"tipo_proveedor", value_counts(Col(d, S_Tipo_Proveedor))>> >>

\* generar_graficos(d), d already holding 'Tipo Proveedor'.  A bar plot of
\* an empty series raises in pandas, so no figure is made of an empty d.
generar_graficos(d) ==
  IF NRows(d) = 0 THEN [ok |-> FALSE, exc |-> "plot", ret |-> <<>>]
  ELSE [ok |-> TRUE, exc |-> "", ret |-> Figuras(d)]

\* The flowables generar_pdf hands to doc.build.
generar_pdf(fs, resumen) ==
  << <<"Paragraph", "titulo">>, <<"Spacer", "">>,
     <<"Paragraph", resumen>>, <<"Spacer", "">> >>
  \o [k \in 1..(2 * Len(fs)) |->
        IF k % 2 = 1 THEN <<"Image", fs[(k + 1) \div 2][1]>>
        ELSE <<"Spacer", "">>]


----------------------------------------------------------------------------
(* The inputs: uploaded tables and widget values. *)

Clientes == { <<65>>, <<66>> }

Categorias ==
  { <<78, 117, 101, 118, 111, 32, 80, 114, 111, 118, 101, 101, 100, 111, 114>>,
    <<80, 114, 111, 118, 101, 101, 100, 111, 114, 32, 88>> }

Ventas == {3000, 10000}

Fechas == {20230410, 20240105, 20240420}

\* Headers of the date columns of an upload: one that matches 'fecha' only
\* after strip and lower, two that both match, and none that matches.
Encabezados ==
  { << <<32, 70, 69, 67, 72, 65, 32>> >>,
    <<S_fecha, S_Fecha>>,
    << <<70, 101, 99, 104, 97, 32, 80, 97, 103, 111>> >> }

SeqsUpTo(D, lo, hi) == UNION {[1..k -> D] : k \in lo..hi}

Filas == [cliente : Clientes, categoria : Categorias, venta : Ventas, fecha : Fechas]

FilasUnaVenta == {f \in Filas : f.venta = 10000}

\* The table pd.read_excel returns for a sheet with the date columns fcols
\* followed by cliente, categoria, venta.  The first date column holds the
\* rows' dates as datetimes ("ts"), as texts ("str"), or as texts of which
\* the last does not parse ("bad"); a second date column holds another date.
MkTabla(fcols, kind, filas) ==
  LET columns == fcols \o <<S_cliente, S_categoria, S_venta>>
      celda(i, c) ==
        IF c = S_cliente THEN filas[i].cliente
        ELSE IF c = S_categoria THEN filas[i].categoria
        ELSE IF c = S_venta THEN filas[i].venta
        ELSE IF c # fcols[1] THEN <<"ts", 20230410>>
        ELSE IF kind = "ts" THEN <<"ts", filas[i].fecha>>
        ELSE IF kind = "bad" /\ i = Len(filas) THEN <<"bad", 0>>
        ELSE <<"str", filas[i].fecha>>
  IN  [columns |-> columns,
       index   |-> [i \in 1..Len(filas) |-> i - 1],
       data    |-> [i \in 1..Len(filas) |-> [c \in Range(columns) |-> celda(i, c)]]]

\* The uploads of the dashboard.
Archivos ==
  {MkTabla(h, k, filas) : h \in Encabezados, k \in {"ts", "str", "bad"},
                          filas \in SeqsUpTo(Filas, 1, MaxRows)}

\* Normalized datasets: what procesar_datos returns.
Normalizados(F, n) ==
  {procesar_datos(MkTabla(<<S_Fecha>>, "ts", filas)).ret : filas \in SeqsUpTo(F, 0, n)}

Criterios ==
  [clientes : SUBSET Clientes, categorias : SUBSET Categorias,
   inicio : Fechas, fin : Fechas]

SinSeleccion == [clientes |-> {}, categorias |-> {}, inicio |-> 0, fin |-> 0]

----------------------------------------------------------------------------
(* The script, from the upload on: one action per stage of the try block. *)

InitCon(p, d, s, f) ==
  /\ pc = p
  /\ raw = EmptyDF
  /\ raw0 = EmptyDF
  /\ df = d
  /\ sel = s
  /\ df_filtrado = f
  /\ total = 0
  /\ iva = 0
  /\ neto = 0
  /\ ticket_promedio = Num(0)
  /\ figs = <<>>
  /\ resumen_texto = ResumenTexto(0, 0, 0, Num(0))
  /\ pdf = <<>>
  /\ pantalla = <<>>
  /\ error = ""

Init == InitCon("read", EmptyDF, SinSeleccion, EmptyDF)

\* An exception inside the try block: control goes to the except clause.
Lanza(e) == pc' = "except" /\ error' = e

\* df = pd.read_excel(archivo)
Leer ==
  /\ pc = "read"
  /\ \/ /\ Lanza("read_excel")
        /\ UNCHANGED raw
     \/ /\ \E t \in Archivos : raw' = t
        /\ pc' = "procesar"
        /\ UNCHANGED error
  /\ UNCHANGED <<raw0, df, sel, df_filtrado, total, iva, neto, ticket_promedio,
                 figs, resumen_texto, pdf, pantalla>>

\* df = procesar_datos(df).  raw is the table object that was passed in,
\* raw0 records what it held before the call.
Procesar ==
  /\ pc = "procesar"
  /\ raw0' = raw
  /\ LET r == procesar_datos(raw)
     IN  IF r.ok
         THEN /\ raw' = r.ret
              /\ df' = r.ret
              /\ pc' = "widgets"
              /\ UNCHANGED error
         ELSE /\ Lanza(r.exc)
              /\ UNCHANGED <<raw, df>>
  /\ UNCHANGED <<sel, df_filtrado, total, iva, neto, ticket_promedio,
                 figs, resumen_texto, pdf, pantalla>>

\* The sidebar: two multiselects over the values present, and a date range
\* picked in order.  date_input returns a single date while the user has
\* picked only the start, and unpacking that raises.
Widgets ==
  /\ pc = "widgets"
  /\ \/ /\ Lanza("ValueError")
        /\ UNCHANGED sel
     \/ /\ \E cs \in SUBSET Range(Col(df, S_cliente)),
              gs \in SUBSET Range(Col(df, S_categoria)),
              a \in Fechas, b \in Fechas :
                /\ a <= b
                /\ sel' = [clientes |-> cs, categorias |-> gs, inicio |-> a, fin |-> b]
        /\ pc' = "filtrar"
        /\ UNCHANGED error
  /\ UNCHANGED <<raw, raw0, df, df_filtrado, total, iva, neto, ticket_promedio,
                 figs, resumen_texto, pdf, pantalla>>

\* df_filtrado = filtrar_datos(...), and the count of records is shown.
Filtrar ==
  /\ pc = "filtrar"
  /\ df_filtrado' = filtrar_datos(df, sel.clientes, sel.categorias, sel.inicio, sel.fin)
  /\ pantalla' = Append(pantalla, <<"markdown", NRows(df_filtrado')>>)
  /\ pc' = "metricas"
  /\ UNCHANGED <<raw, raw0, df, sel, total, iva, neto, ticket_promedio,
                 figs, resumen_texto, pdf, error>>

\* total, iva, neto, ticket_promedio, and the three st.metric.
Metricas ==
  /\ pc = "metricas"
  /\ total' = Total(df_filtrado)
  /\ iva' = Iva(total')
  /\ neto' = Neto(total', iva')
  /\ ticket_promedio' = TicketPromedio(df_filtrado)
  /\ pantalla' = pantalla \o << <<"metric_total", Fmt2(Num(total'))>>,
                                <<"metric_neto", Fmt2(Num(neto'))>>,
                                <<"metric_ticket", Fmt2(ticket_promedio')>> >>
  /\ pc' = "graficos"
  /\ UNCHANGED <<raw, raw0, df, sel, df_filtrado, figs, resumen_texto, pdf, error>>

\* figs = generar_graficos(df_filtrado), then st.pyplot of each figure.
Graficos ==
  /\ pc = "graficos"
  /\ df_filtrado' = ConTipoProveedor(df_filtrado)
  /\ LET r == generar_graficos(df_filtrado')
     IN  IF r.ok
         THEN /\ figs' = r.ret
              /\ pantalla' = pantalla \o
                   [k \in 1..Len(r.ret) |-> <<"pyplot", r.ret[k][1]>>]
              /\ pc' = "resumen"
              /\ UNCHANGED error
         ELSE /\ Lanza(r.exc)
              /\ UNCHANGED <<figs, pantalla>>
  /\ UNCHANGED <<raw, raw0, df, sel, total, iva, neto, ticket_promedio,
                 resumen_texto, pdf>>

\* resumen_texto, and the button: pressed or not.
Resumen ==
  /\ pc = "resumen"
  /\ resumen_texto' = ResumenTexto(total, iva, neto, ticket_promedio)
  /\ \/ pc' = "pdf"
     \/ pc' = "fin"
  /\ UNCHANGED <<raw, raw0, df, sel, df_filtrado, total, iva, neto,
                 ticket_promedio, figs, pdf, pantalla, error>>

\* generar_pdf and the download button; writing the file may fail.
GenerarPDF ==
  /\ pc = "pdf"
  /\ \/ /\ Lanza("generar_pdf")
        /\ UNCHANGED <<pdf, pantalla>>
     \/ /\ pdf' = generar_pdf(figs, resumen_texto)
        /\ pantalla' = Append(pantalla, <<"download_button", "informe_contable.pdf">>)
        /\ pc' = "fin"
        /\ UNCHANGED error
  /\ UNCHANGED <<raw, raw0, df, sel, df_filtrado, total, iva, neto,
                 ticket_promedio, figs, resumen_texto>>

\* except Exception as e: st.error(...)
Except ==
  /\ pc = "except"
  /\ pantalla' = Append(pantalla, <<"error", error>>)
  /\ pc' = "fin"
  /\ UNCHANGED <<raw, raw0, df, sel, df_filtrado, total, iva, neto,
                 ticket_promedio, figs, resumen_texto, pdf, error>>

Next ==
  \/ Leer
  \/ Procesar
  \/ Widgets
  \/ Filtrar
  \/ Metricas
  \/ Graficos
  \/ Resumen
  \/ GenerarPDF
  \/ Except

Spec == Init /\ [][Next]_vars

\* filtrar_datos on its own: any normalized dataset, any criteria.
InitFiltro ==
  \E d \in Normalizados(FilasUnaVenta, MaxRows), s \in Criterios :
    InitCon("filtrar", d, s, EmptyDF)

NextFiltro == Filtrar

SpecFiltro == InitFiltro /\ [][NextFiltro]_vars

\* The aggregation on its own: any filtered dataset.
InitAgg == \E f \in Normalizados(Filas, MaxRows) : InitCon("metricas", EmptyDF, SinSeleccion, f)

NextAgg ==
  \/ Metricas
  \/ Graficos
  \/ Resumen
  \/ Except

SpecAgg == InitAgg /\ [][NextAgg]_vars


----------------------------------------------------------------------------
(* Properties *)

\* The three predicates of the filter on one row, stated on the criteria.
Satisface(row, s) ==
  /\ row[S_cliente] \in s.clientes
  /\ row[S_categoria] \in s.categorias
  /\ s.inicio <= row[S_Fecha][2]
  /\ row[S_Fecha][2] <= s.fin

\* C1: once filtrar_datos has run, every surviving record satisfies the
\* three predicates (endpoints included), every record of the input that
\* satisfies them survives, and the survivors are rows of the input in
\* their input order (df's index labels are 0, 1, ..., so the labels of
\* the output increase and each names the input row it is).
C1_FiltroExacto ==
  pc = "metricas" =>
    /\ \A k \in 1..NRows(df_filtrado) : Satisface(df_filtrado.data[k], sel)
    /\ \A i \in 1..NRows(df) :
         Satisface(df.data[i], sel) =>
           \E k \in 1..NRows(df_filtrado) : df_filtrado.index[k] = df.index[i]
    /\ \A k \in 1..NRows(df_filtrado) :
         /\ df_filtrado.index[k] + 1 \in 1..NRows(df)
         /\ df_filtrado.data[k] = df.data[df_filtrado.index[k] + 1]
    /\ \A k \in 1..(NRows(df_filtrado) - 1) :
         df_filtrado.index[k] < df_filtrado.index[k + 1]
    /\ df_filtrado.columns = df.columns

\* C1 witness: a filter that keeps a record dated exactly at the end of
\* the range and one dated exactly at its start, and drops another record.
C1_Witness ==
  /\ pc = "metricas"
  /\ NRows(df_filtrado) < NRows(df)
  /\ \E k \in 1..NRows(df_filtrado) : df_filtrado.data[k][S_Fecha][2] = sel.fin
  /\ \E k \in 1..NRows(df_filtrado) : df_filtrado.data[k][S_Fecha][2] = sel.inicio

\* The series of the figure named key.
Serie(key) == LET k == CHOOSE k \in 1..Len(figs) : figs[k][1] = key IN figs[k][2]

\* The keys of series s are distinct and are exactly the values of column
\* key in the filtered dataset.
ClavesExactas(s, key) ==
  /\ {s[j][1] : j \in 1..Len(s)} = Range(Col(df_filtrado, key))
  /\ \A i \in 1..Len(s), j \in 1..Len(s) : s[i][1] = s[j][1] => i = j

C3_IvaRedondeado ==
  pc \in {"graficos", "resumen"} =>
    /\ iva = 100 * RoundHalfEven(total * 19, 10000)
    /\ neto = total - iva

\* C3 amended: the tax is exactly 19% of the total, not rounded, and
\* the net is the total minus the tax, so that tax + net = total; only the
\* texts shown are rounded to two decimals.
C3_IvaExacto ==
  pc \in {"graficos", "resumen"} =>
    /\ 100 * iva = 19 * total
    /\ neto + iva = total
    /\ iva >= 0

\* C3 witness: metrics of a positive total whose tax is not a whole number
\* of cents.
C3_Witness ==
  /\ pc = "graficos"
  /\ total > 0
  /\ iva % 100 # 0

\* C4: no NaN average ticket is ever shown in a metric or put in the
\* summary paragraph.
C4_TicketNuncaNaN ==
  /\ \A i \in 1..Len(pantalla) :
       pantalla[i][1] = "metric_ticket" => ~pantalla[i][2].nan
  /\ ~resumen_texto.ticket.nan

\* C5: procesar_datos produces a normalized dataset only for a table with
\* exactly one column whose name normalizes to "fecha".
C5_UnaSolaColumnaFecha ==
  df # EmptyDF => Len(ColumnasFecha(raw0)) = 1

\* C6: when the filter leaves no record, the run ends without an error,
\* with the six figures and an all-zero summary.
C6_VacioSinError ==
  (pc = "fin" /\ Len(pantalla) > 0 /\ pantalla[1][1] = "markdown"
                /\ NRows(df_filtrado) = 0) =>
    /\ error = ""
    /\ Len(figs) = 6
    /\ resumen_texto = ResumenTexto(0, 0, 0, Num(0))

\* The month whose displayed name is nombre.
MesDeNombre(nombre) == CHOOSE m \in 1..12 : Mes_Nombre(m) = nombre

\* C7: the months of the year-over-year pivot are in calendar order.
C7_MesesEnOrdenCalendario ==
  pc = "resumen" =>
    LET idx == Serie("comparacion_anual").index
    IN  \A i \in 1..Len(idx), j \in 1..Len(idx) :
          i < j => MesDeNombre(idx[i]) < MesDeNombre(idx[j])

\* C8: when the error message is shown, nothing else (no count, metric,
\* figure or download) has been shown.
C8_ErrorSinSalidaParcial ==
  \A i \in 1..Len(pantalla) : pantalla[i][1] = "error" => Len(pantalla) = 1

\* C9: the filter stage never completes on a range whose start is after
\* its end.
C9_RangoInvertidoRechazado ==
  ~(pc = "metricas" /\ sel.inicio > sel.fin)

\* C10: after procesar_datos the table that was passed in has the columns
\* and the date values it had before the call.
C10_TablaIntacta ==
  pc \notin {"read", "procesar"} /\ raw0 # EmptyDF =>
    /\ raw.columns = raw0.columns
    /\ \A c \in Range(raw0.columns) : Col(raw, c) = Col(raw0, c)


====
